---------------------------- MODULE Spec2Model ----------------------------
(***************************************************************************)
(* A model of src/core-js-dates-tasks.js: the date functions and the Date  *)
(* built-ins they call.                                                    *)
(*                                                                         *)
(* A Date object is its time value.  Time values are counted in whole      *)
(* seconds since 1970-01-01T00:00:00Z: every input has zero milliseconds,  *)
(* so the factor 1000 of the source's millisecond arithmetic is dropped.   *)
(* A string is a sequence of one-character strings, so that parsing and    *)
(* formatting are computed and not assumed.                                *)
(*                                                                         *)
(* The host's time zone is an input of the program: `new Date(y, m, d)`,   *)
(* getMonth, getDay, getDate, setDate and setMonth read it, the UTC        *)
(* methods do not.  Three zones are modelled with their real rules: UTC,   *)
(* Europe/Berlin (east of UTC, daylight saving time) and America/New_York  *)
(* (west of UTC, daylight saving time).                                    *)
(***************************************************************************)
EXTENDS Integers, Sequences, FiniteSets

VARIABLES
  tz,                  \* the host's time zone
  pc,                  \* control point of the call in progress
  date,                \* the caller's Date object (its time value)
  call,                \* the function called and its arguments
  ret,                 \* the value the last call returned
  prev,                \* the call and result before the last one
  calls,               \* number of calls made on the Date object
  startDateCopy,       \* getWorkSchedule
  diff,                \* getWorkSchedule
  workDaysArr,         \* getWorkSchedule
  interimDateCounter,  \* getWorkSchedule
  j,                   \* getWorkSchedule: the for loop's counter
  copy,                \* getNextFridayThe13th
  monthCounter,        \* getNextFridayThe13th
  found                \* getNextFridayThe13th

vars == <<tz, pc, date, call, ret, prev, calls, startDateCopy, diff,
          workDaysArr, interimDateCounter, j, copy, monthCounter, found>>

\* `let found;`: no time value (time values are not negative)
undefined == 0 - 1

---------------------------------------------------------------------------
(* Bounds of the model.                                                    *)

\* longest period of getWorkSchedule, in days
MaxPeriod == 8
\* largest countWorkDays
MaxWorkDays == 3
\* largest countOffDays
MaxOffDays == 3
\* number of calls made on one Date object
MaxCalls == 2
\* number of consecutive years the searches for a Friday the 13th start in
NumYears == 28
\* number of consecutive years the dates of a week number come from
WeekNumYears == 8

---------------------------------------------------------------------------
(* ECMAScript time arithmetic (Date's abstract operations).                *)

\* 1000 * 60 * 60 * 24 milliseconds, in the model's unit (seconds)
msPerDay == 60 * 60 * 24

msPerHour == 60 * 60

Day(t) == t \div msPerDay

TimeWithinDay(t) == t % msPerDay

\* 0 = Sunday .. 6 = Saturday; 1970-01-01 was a Thursday
WeekDay(t) == (Day(t) + 4) % 7

\* the day number of the civil date y-m-d, m in 1..12
DayNumber[y \in Int, m \in 1..12, d \in Int] ==
  LET yy  == IF m <= 2 THEN y - 1 ELSE y
      era == yy \div 400
      yoe == yy - era * 400
      mp  == IF m > 2 THEN m - 3 ELSE m + 9
      doy == (153 * mp + 2) \div 5 + d - 1
      doe == yoe * 365 + yoe \div 4 - yoe \div 100 + doy
  IN  era * 146097 + doe - 719468

DaysFromCivil(y, m, d) == DayNumber[y, m, d]

\* the civil date [year, month (0..11), date] of a day number
Civil[z \in Int] ==
  LET zz  == z + 719468
      era == zz \div 146097
      doe == zz - era * 146097
      yoe == (doe - doe \div 1460 + doe \div 36524 - doe \div 146096) \div 365
      doy == doe - (365 * yoe + yoe \div 4 - yoe \div 100)
      mp  == (5 * doy + 2) \div 153
      d   == doy - (153 * mp + 2) \div 5 + 1
      m   == IF mp < 10 THEN mp + 3 ELSE mp - 9
      y   == yoe + era * 400 + (IF m <= 2 THEN 1 ELSE 0)
  IN  [year |-> y, month |-> m - 1, date |-> d]

CivilFromDays(z) == Civil[z]

YearFromTime(t) == CivilFromDays(Day(t)).year

MonthFromTime(t) == CivilFromDays(Day(t)).month

DateFromTime(t) == CivilFromDays(Day(t)).date

\* month may exceed 11 and then denotes a month of a following year
MakeDay(year, month, dt) ==
  DaysFromCivil(year + month \div 12, (month % 12) + 1, 1) + dt - 1

MakeDate(day, time) == day * msPerDay + time

---------------------------------------------------------------------------
(* The host's time zone.                                                   *)

TimeZones == {"UTC", "Europe/Berlin", "America/New_York"}

StandardOffset(z) ==
  CASE z = "UTC" -> 0
    [] z = "Europe/Berlin" -> msPerHour
    [] z = "America/New_York" -> 0 - 5 * msPerHour

\* the day number of the Sunday among the dates lo .. lo + 6 of month m (1..12)
SundayFrom(y, m, lo) ==
  CHOOSE d \in DaysFromCivil(y, m, lo) .. DaysFromCivil(y, m, lo) + 6 :
    (d + 4) % 7 = 0

\* the instant daylight saving time begins in year y
DSTStart(z, y) ==
  CASE z = "Europe/Berlin" -> MakeDate(SundayFrom(y, 3, 25), msPerHour)
    [] z = "America/New_York" -> MakeDate(SundayFrom(y, 3, 8), 7 * msPerHour)

\* the instant daylight saving time ends in year y
DSTEnd(z, y) ==
  CASE z = "Europe/Berlin" -> MakeDate(SundayFrom(y, 10, 25), msPerHour)
    [] z = "America/New_York" -> MakeDate(SundayFrom(y, 11, 1), 6 * msPerHour)

\* whether daylight saving time is in force at the instant t
DST[z \in TimeZones, t \in Int] ==
  /\ z # "UTC"
  /\ DSTStart(z, YearFromTime(t)) <= t
  /\ t < DSTEnd(z, YearFromTime(t))

InDST(z, t) == DST[z, t]

\* LocalTZA(t, true): the offset in force at the instant t
LocalTZA(z, t) ==
  IF InDST(z, t) THEN StandardOffset(z) + msPerHour ELSE StandardOffset(z)

LocalTime(z, t) == t + LocalTZA(z, t)

\* UTC(t) of ECMAScript: a local time that is skipped or repeated at a
\* transition is read with the offset in force before the transition
UTCOfLocal[z \in TimeZones, tlocal \in Int] ==
  IF InDST(z, tlocal - (StandardOffset(z) + msPerHour))
    THEN tlocal - (StandardOffset(z) + msPerHour)
    ELSE tlocal - StandardOffset(z)

UTC(z, tlocal) == UTCOfLocal[z, tlocal]

---------------------------------------------------------------------------
(* Date's constructor and methods, on a time value.                        *)

\* new Date(year, monthIndex, day): local midnight
NewDate(z, year, monthIndex, day) ==
  UTC(z, MakeDate(MakeDay(year, monthIndex, day), 0))

\* Date.UTC / the parse of an ISO string ending in Z
DateUTC(year, monthIndex, day, hours, minutes, seconds) ==
  MakeDate(MakeDay(year, monthIndex, day), hours * msPerHour + minutes * 60 + seconds)

getUTCDay(t) == WeekDay(t)

getUTCDate(t) == DateFromTime(t)

getUTCMonth(t) == MonthFromTime(t)

getUTCFullYear(t) == YearFromTime(t)

getUTCHours(t) == TimeWithinDay(t) \div msPerHour

getUTCMinutes(t) == (TimeWithinDay(t) % msPerHour) \div 60

getUTCSeconds(t) == TimeWithinDay(t) % 60

getDay(z, t) == WeekDay(LocalTime(z, t))

getDate(z, t) == DateFromTime(LocalTime(z, t))

getMonth(z, t) == MonthFromTime(LocalTime(z, t))

getFullYear(z, t) == YearFromTime(LocalTime(z, t))

setDate(z, t, dt) ==
  LET lt == LocalTime(z, t)
  IN  UTC(z, MakeDate(MakeDay(YearFromTime(lt), MonthFromTime(lt), dt),
                      TimeWithinDay(lt)))

setUTCDate(t, dt) ==
  MakeDate(MakeDay(YearFromTime(t), MonthFromTime(t), dt), TimeWithinDay(t))

\* setMonth(month, date)
setMonth(z, t, month, dt) ==
  LET lt == LocalTime(z, t)
  IN  UTC(z, MakeDate(MakeDay(YearFromTime(lt), month, dt), TimeWithinDay(lt)))

\* setUTCMonth(month, date)
setUTCMonthDate(t, month, dt) ==
  MakeDate(MakeDay(YearFromTime(t), month, dt), TimeWithinDay(t))

\* setUTCMonth(month): the date is kept
setUTCMonth(t, month) == setUTCMonthDate(t, month, DateFromTime(t))

---------------------------------------------------------------------------
(* Strings: sequences of characters.                                       *)

Digits == <<"0", "1", "2", "3", "4", "5", "6", "7", "8", "9">>

DigitValue(c) == (CHOOSE i \in 1..10 : Digits[i] = c) - 1

\* a number n >= 0 in a template literal: its decimal digits
RECURSIVE NumberToString(_)
NumberToString(n) ==
  IF n < 10 THEN <<Digits[n + 1]>>
  ELSE NumberToString(n \div 10) \o <<Digits[(n % 10) + 1]>>

\* a digit string used as a number ('01' - 1, new Date('2024', ...))
RECURSIVE StringToNumber(_)
StringToNumber(s) ==
  IF s = <<>> THEN 0
  ELSE 10 * StringToNumber(SubSeq(s, 1, Len(s) - 1)) + DigitValue(s[Len(s)])

\* String.prototype.split(sep), sep one character
RECURSIVE Split(_, _)
Split(s, sep) ==
  IF \A i \in 1..Len(s) : s[i] # sep THEN <<s>>
  ELSE LET k == CHOOSE i \in 1..Len(s) :
                  s[i] = sep /\ \A h \in 1..(i - 1) : s[h] # sep
       IN  <<SubSeq(s, 1, k - 1)>> \o Split(SubSeq(s, k + 1, Len(s)), sep)

\* `${n < 10 ? `0${n}` : n}`
ZeroPad(n) == IF n < 10 THEN <<"0">> \o NumberToString(n) ELSE NumberToString(n)

\* Math.ceil(a / b), b > 0
Ceil(a, b) == 0 - ((0 - a) \div b)

---------------------------------------------------------------------------
(* Inputs.                                                                 *)

\* a calendar date as the caller writes it, 'DD-MM-YYYY'
DDMMYYYY(day) ==
  LET c == CivilFromDays(day)
  IN  ZeroPad(c.date) \o <<"-">> \o ZeroPad(c.month + 1) \o <<"-">>
        \o NumberToString(c.year)

\* the day number a 'DD-MM-YYYY' string denotes, read by position
DayOfDDMMYYYY(s) ==
  DaysFromCivil(StringToNumber(SubSeq(s, 7, 10)), StringToNumber(SubSeq(s, 4, 5)),
                StringToNumber(SubSeq(s, 1, 2)))

\* first days of the periods: before a new year, before a leap day, and
\* before the ends of daylight saving time (27 October and 3 November 2024)
ScheduleStarts ==
  UNION {{DaysFromCivil(2023, 12, 30) + k, DaysFromCivil(2024, 2, 27) + k,
          DaysFromCivil(2024, 10, 26) + k} : k \in 0..2}

Periods ==
  {[start |-> DDMMYYYY(s), end |-> DDMMYYYY(s + len)] :
     s \in ScheduleStarts, len \in 0..MaxPeriod}

NoCall == [fn |-> "none"]

\* the state before any call: the caller's Date object is t, nothing returned
Fresh(t) ==
  /\ pc = "idle"
  /\ date = t
  /\ call = NoCall
  /\ ret = <<>>
  /\ prev = <<>>
  /\ calls = 0
  /\ startDateCopy = 0
  /\ diff = 0
  /\ workDaysArr = <<>>
  /\ interimDateCounter = 0
  /\ j = 0
  /\ copy = 0
  /\ monthCounter = 0
  /\ found = undefined

---------------------------------------------------------------------------
(* getWorkSchedule(period, countWorkDays, countOffDays)                    *)

WSLocals == <<startDateCopy, diff, workDaysArr, interimDateCounter, j>>

F13Locals == <<copy, monthCounter, found>>

\* the date of the period at offset counter, formatted 'DD-MM-YYYY'
WSFormatted(start, counter) ==
  LET localCopy == setUTCDate(start, getUTCDate(start) + counter)
      dt        == getUTCDate(localCopy)
      month     == getUTCMonth(localCopy) + 1
  IN  ZeroPad(dt) \o <<"-">> \o ZeroPad(month) \o <<"-">>
        \o NumberToString(getUTCFullYear(localCopy))

\* the condition of the while loop
WSLoopCondStrict(counter, d) == counter < d

WSLoopCond(counter, d) == counter <= d

\* lines 313-323: the dates are parsed and the counters set
WS_Begin(period, w, o) ==
  /\ pc = "idle"
  /\ LET s         == Split(period.start, "-")
         startDate == NewDate(tz, StringToNumber(s[3]), StringToNumber(s[2]) - 1,
                              StringToNumber(s[1]))
         e         == Split(period.end, "-")
         endDate   == NewDate(tz, StringToNumber(e[3]), StringToNumber(e[2]) - 1,
                              StringToNumber(e[1]))
     IN  /\ startDateCopy' = startDate
         /\ diff' = Ceil(endDate - startDate, msPerDay)
  /\ workDaysArr' = <<>>
  /\ interimDateCounter' = 0
  /\ j' = 0
  /\ call' = [fn |-> "getWorkSchedule", period |-> period,
              countWorkDays |-> w, countOffDays |-> o]
  /\ pc' = "while"
  /\ UNCHANGED <<tz, date, ret, prev, calls, F13Locals>>

\* line 325: the test of the while loop, and the for loop's j = 0
WS_While ==
  /\ pc = "while"
  /\ IF WSLoopCond(interimDateCounter, diff)
       THEN pc' = "for" /\ j' = 0
       ELSE pc' = "return" /\ j' = j
  /\ UNCHANGED <<tz, date, call, ret, prev, calls, startDateCopy, diff,
                 workDaysArr, interimDateCounter, F13Locals>>

\* lines 326-337: one pass of the for loop
WS_For ==
  /\ pc = "for"
  /\ IF j < call.countWorkDays
       THEN /\ workDaysArr' =
                 Append(workDaysArr, WSFormatted(startDateCopy, interimDateCounter))
            /\ interimDateCounter' = interimDateCounter + 1
            /\ IF interimDateCounter + 1 > diff
                 THEN pc' = "off" /\ j' = j
                 ELSE pc' = "for" /\ j' = j + 1
       ELSE /\ pc' = "off"
            /\ UNCHANGED <<workDaysArr, interimDateCounter, j>>
  /\ UNCHANGED <<tz, date, call, ret, prev, calls, startDateCopy, diff, F13Locals>>

\* line 339: the off days are skipped
WS_Off ==
  /\ pc = "off"
  /\ interimDateCounter' = interimDateCounter + call.countOffDays
  /\ pc' = "while"
  /\ UNCHANGED <<tz, date, call, ret, prev, calls, startDateCopy, diff,
                 workDaysArr, j, F13Locals>>

\* line 342
WS_Return ==
  /\ pc = "return"
  /\ ret' = workDaysArr
  /\ pc' = "done"
  /\ UNCHANGED <<tz, date, call, prev, calls, WSLocals, F13Locals>>

WS_Call ==
  \E period \in Periods, w \in 1..MaxWorkDays, o \in 1..MaxOffDays :
    WS_Begin(period, w, o)

InitWorkSchedule == tz \in TimeZones /\ Fresh(0)

\* the steps of a call in progress
WS_Run == WS_While \/ WS_For \/ WS_Off \/ WS_Return

NextWorkSchedule == WS_Call \/ WS_Run

\* the function is synchronous: a call that has begun runs on
SpecWorkSchedule ==
  InitWorkSchedule /\ [][NextWorkSchedule]_vars /\ WF_vars(WS_Run)

---------------------------------------------------------------------------
(* Claims about getWorkSchedule.                                           *)

WSDone == pc = "done" /\ call.fn = "getWorkSchedule"

WSStartDay == DayOfDDMMYYYY(call.period.start)

WSEndDay == DayOfDDMMYYYY(call.period.end)

\* the work days of the cycle that begins on the first day of the period
ExpectedSchedule ==
  LET cycle   == call.countWorkDays + call.countOffDays
      offsets == [i \in 1..(WSEndDay - WSStartDay + 1) |-> i - 1]
      work    == SelectSeq(offsets, LAMBDA k : k % cycle < call.countWorkDays)
  IN  [i \in 1..Len(work) |-> DDMMYYYY(WSStartDay + work[i])]

\* C1: getWorkSchedule returns exactly the dates start + k, k in 0..D, with
\* k mod (countWorkDays + countOffDays) < countWorkDays, each once and in
\* this order; the end date is included when it is a work day.
C1_ExactSchedule == WSDone => ret = ExpectedSchedule

\* C2: after every step of getWorkSchedule the result list is in strictly
\* ascending chronological order and holds no date before start or after end.
C2_AscendingInPeriod ==
  call.fn = "getWorkSchedule" =>
    /\ \A i \in 1..Len(workDaysArr) :
         /\ WSStartDay <= DayOfDDMMYYYY(workDaysArr[i])
         /\ DayOfDDMMYYYY(workDaysArr[i]) <= WSEndDay
    /\ \A i \in 1..(Len(workDaysArr) - 1) :
         DayOfDDMMYYYY(workDaysArr[i]) < DayOfDDMMYYYY(workDaysArr[i + 1])

\* C9: getWorkSchedule terminates; no step lowers the day offset and the
\* step that ends a pass of the outer loop raises it by at least 1; the loop
\* is not left before the offset exceeds the period length (diff).
C9_Terminates ==
  /\ (pc = "while" ~> pc = "done")
  /\ [](pc \in {"return", "done"} =>
          /\ interimDateCounter > diff
          /\ interimDateCounter > WSEndDay - WSStartDay)
  /\ [][/\ interimDateCounter' >= interimDateCounter
        /\ (pc = "off" => interimDateCounter' >= interimDateCounter + 1)]_vars

\* a call that went through the outer loop more than once and returned
C9_Witness ==
  /\ WSDone
  /\ Len(ret) >= 2
  /\ interimDateCounter > diff
  /\ diff >= call.countWorkDays + call.countOffDays

---------------------------------------------------------------------------
(* Functions of a Date object.  The caller holds one Date object, `date`,  *)
(* and calls functions on it, one after the other.                         *)

\* a call on the Date object begins: the call before it is remembered
Enter(fn) ==
  /\ pc = "idle"
  /\ calls < MaxCalls
  /\ calls' = calls + 1
  /\ prev' = IF calls = 0 THEN <<>> ELSE <<[fn |-> call.fn, ret |-> ret]>>
  /\ call' = [fn |-> fn, date |-> date]

\* lines 77-84: the days to add, from the UTC weekday
NextFridayDiff(weekDay) == IF weekDay < 5 THEN 5 - weekDay ELSE 7 - weekDay + 5

\* lines 76-89; the value is the argument object itself, moved
getNextFriday(z, d) == setDate(z, d, getDate(z, d) + NextFridayDiff(getUTCDay(d)))

GetNextFriday ==
  /\ Enter("getNextFriday")
  /\ date' = getNextFriday(tz, date)
  /\ ret' = date'
  /\ UNCHANGED <<tz, pc, WSLocals, F13Locals>>

\* lines 234-239
WeekShiftNoSunday(yearStartDay) ==
  IF yearStartDay # 1 /\ yearStartDay # 0 THEN yearStartDay - 1 ELSE 0

WeekShift(yearStartDay) ==
  IF yearStartDay # 1 /\ yearStartDay # 0 THEN yearStartDay - 1
  ELSE IF yearStartDay = 0 THEN 6 ELSE 0

\* lines 227-244
getWeekNumberByDate(d) ==
  LET yearStart  == setUTCMonthDate(d, 0, 1)
      diffInDays == (d - yearStart) \div msPerDay
      shift      == WeekShift(getUTCDay(yearStart))
  IN  Ceil(diffInDays + shift + 1, 7)

\* the function is called with the Date object t
GetWeekNumberByDate(t) ==
  /\ Enter("getWeekNumberByDate")
  /\ date' = t
  /\ ret' = getWeekNumberByDate(t)
  /\ UNCHANGED <<tz, pc, WSLocals, F13Locals>>

\* lines 288-292
getQuarter(z, d) == Ceil(getMonth(z, d) + 1, 3)

GetQuarter ==
  /\ Enter("getQuarter")
  /\ ret' = getQuarter(tz, date)
  /\ UNCHANGED <<tz, pc, date, WSLocals, F13Locals>>

\* lines 357-365
isLeapYear(z, d) ==
  LET year == getFullYear(z, d)
  IN  (year % 4 = 0 /\ year % 100 # 0) \/ year % 400 = 0

IsLeapYear ==
  /\ Enter("isLeapYear")
  /\ ret' = isLeapYear(tz, date)
  /\ UNCHANGED <<tz, pc, date, WSLocals, F13Locals>>

---------------------------------------------------------------------------
(* getNextFridayThe13th(date), step by step.                               *)

\* lines 263-264: the 13th of month monthCounter, counted from copy's year
F13LocalCopySameYear(z, c, m) == setMonth(z, c, m % 12, 13)

F13LocalCopy(z, c, m) == setMonth(z, c, m, 13)

\* lines 258-260
F13_Begin ==
  /\ Enter("getNextFridayThe13th")
  /\ copy' = date
  /\ monthCounter' = getMonth(tz, date)
  /\ found' = undefined
  /\ pc' = "search"
  /\ UNCHANGED <<tz, date, ret, WSLocals>>

\* lines 262-272: one pass of the while loop (monthCounter is a number)
F13_Search ==
  /\ pc = "search"
  /\ LET localCopy == F13LocalCopy(tz, copy, monthCounter)
     IN  IF getDay(tz, localCopy) = 5
           THEN found' = localCopy /\ pc' = "found" /\ monthCounter' = monthCounter
           ELSE found' = found /\ pc' = "search" /\ monthCounter' = monthCounter + 1
  /\ UNCHANGED <<tz, date, call, ret, prev, calls, copy, WSLocals>>

\* line 274
F13_Return ==
  /\ pc = "found"
  /\ ret' = found
  /\ pc' = "idle"
  /\ UNCHANGED <<tz, date, call, prev, calls, WSLocals, F13Locals>>

F13_Run == F13_Search \/ F13_Return

\* the 1st, 13th, 14th and 28th of every month of consecutive years from
\* 2007 on (the zones' present rules), early and late in the UTC day; 28
\* years hold every sequence of year kinds of the years 1901..2099
SearchDates ==
  {MakeDate(DaysFromCivil(y, m, d), time) :
     y \in 2007 .. (2007 + NumYears - 1), m \in 1..12, d \in {1, 13, 14, 28},
     time \in {0, 23 * msPerHour + 30 * 60}}

InitFriday13 == tz \in TimeZones /\ \E t \in SearchDates : Fresh(t)

\* the caller constructs a Date and searches from it once
NextFriday13 == (calls = 0 /\ F13_Begin) \/ F13_Run

\* the function is synchronous: a search that has begun runs on
SpecFriday13 == InitFriday13 /\ [][NextFriday13]_vars /\ WF_vars(F13_Run)

---------------------------------------------------------------------------
(* Claims about getNextFridayThe13th.                                      *)

F13Done == pc = "idle" /\ call.fn = "getNextFridayThe13th"

\* the local calendar day of a Date is a Friday and the 13th of its month
IsFriday13(z, t) == getDate(z, t) = 13 /\ getDay(z, t) = 5

\* months since year 0 of the local calendar month of a Date
LocalMonthIndex(z, t) == getFullYear(z, t) * 12 + getMonth(z, t)

\* C3: getNextFridayThe13th returns the earliest date on or after the input
\* that is a 13th and a Friday; the result is never earlier than the input.
C3_OnOrAfterInput ==
  F13Done =>
    /\ IsFriday13(tz, ret)
    /\ ret >= call.date
    /\ \A m \in LocalMonthIndex(tz, call.date) .. (LocalMonthIndex(tz, ret) - 1) :
         LET t == setMonth(tz, call.date, m - getFullYear(tz, call.date) * 12, 13)
         IN  ~(IsFriday13(tz, t) /\ t >= call.date)

\* C10: the search of getNextFridayThe13th ends with a found date; a month
\* counter above 11 denotes a month of a following year; a Friday the 13th
\* is reached within 14 months (at most 13 steps of the counter).
C10_SearchTerminates ==
  /\ (pc = "search" ~> pc = "idle")
  /\ [](pc = "search" => monthCounter - getMonth(tz, copy) <= 13)
  /\ [](F13Done =>
          /\ ret # undefined
          /\ IsFriday13(tz, ret)
          /\ LocalMonthIndex(tz, ret) = getFullYear(tz, call.date) * 12 + monthCounter)

\* a search that took 13 steps and ended in the following year
C10_Witness ==
  /\ F13Done
  /\ monthCounter > 11
  /\ monthCounter - getMonth(tz, call.date) = 13
  /\ getFullYear(tz, ret) = getFullYear(tz, call.date) + 1


---------------------------------------------------------------------------
(* Functions of strings and numbers.                                       *)

\* a call that takes no Date object; each run makes one
Pure(fn, args) ==
  /\ pc = "idle"
  /\ calls = 0
  /\ calls' = 1
  /\ call' = [fn |-> fn, args |-> args]
  /\ UNCHANGED <<tz, pc, date, prev, WSLocals, F13Locals>>

\* new Date(dateStr) of a 'YYYY-MM-DDTHH:mm:ss.sssZ' string
ParseISO(s) ==
  DateUTC(StringToNumber(SubSeq(s, 1, 4)), StringToNumber(SubSeq(s, 6, 7)) - 1,
          StringToNumber(SubSeq(s, 9, 10)), StringToNumber(SubSeq(s, 12, 13)),
          StringToNumber(SubSeq(s, 15, 16)), StringToNumber(SubSeq(s, 18, 19)))

\* line 181
DayPart(hours) == IF hours >= 1 /\ hours <= 11 THEN <<"A", "M">> ELSE <<"P", "M">>

\* line 182
HoursFormatted(hours) == IF hours # 0 /\ hours # 12 THEN hours % 12 ELSE 12

\* lines 169-185
formatDate(dateStr) ==
  LET d                == ParseISO(dateStr)
      year             == getUTCFullYear(d)
      month            == getUTCMonth(d) + 1
      day              == getUTCDate(d)
      hours            == getUTCHours(d)
      formattedMinutes == ZeroPad(getUTCMinutes(d))
      formattedSeconds == ZeroPad(getUTCSeconds(d))
  IN  NumberToString(month) \o <<"/">> \o NumberToString(day) \o <<"/">>
        \o NumberToString(year) \o <<",", " ">>
        \o NumberToString(HoursFormatted(hours)) \o <<":">> \o formattedMinutes
        \o <<":">> \o formattedSeconds \o <<" ">> \o DayPart(hours)

FormatDate(dateStr) ==
  /\ Pure("formatDate", <<dateStr>>)
  /\ ret' = formatDate(dateStr)

\* lines 102-109; the difference is a whole number of days, since
\* setUTCMonth keeps the time within the day
getCountDaysInMonth(z, month, year) ==
  LET dateObj == NewDate(z, year, month - 1, 1)
      copyObj == setUTCMonth(dateObj, getUTCMonth(dateObj) + 1)
  IN  (copyObj - dateObj) \div msPerDay

GetCountDaysInMonth(month, year) ==
  /\ Pure("getCountDaysInMonth", <<month, year>>)
  /\ ret' = getCountDaysInMonth(tz, month, year)

\* an ISO 8601 string as the caller writes it
ISOString(y, m, d, h, mi, sec) ==
  NumberToString(y) \o <<"-">> \o ZeroPad(m) \o <<"-">> \o ZeroPad(d) \o <<"T">>
    \o ZeroPad(h) \o <<":">> \o ZeroPad(mi) \o <<":">> \o ZeroPad(sec)
    \o <<".", "0", "0", "0", "Z">>

FormatInputs ==
  {ISOString(ymd[1], ymd[2], ymd[3], h, mi, sec) :
     ymd \in {<<2024, 2, 1>>, <<1999, 1, 5>>, <<2010, 12, 15>>},
     h \in 0..23, mi \in {0, 9, 20, 59}, sec \in {0, 5, 10, 59}}

MonthInputs == (1..12) \X {2023, 2024, 2025, 2028}

\* every day of years that begin on each of the seven weekdays, at the
\* first and the last second of the UTC day
WeekDates ==
  {MakeDate(d, time) :
     d \in DaysFromCivil(2015, 1, 1) .. (DaysFromCivil(2015 + WeekNumYears, 1, 1) - 1),
     time \in {0, msPerDay - 1}}

InitCalendar == tz \in TimeZones /\ Fresh(0)

NextCalendar ==
  \/ \E dateStr \in FormatInputs : FormatDate(dateStr)
  \/ \E in \in MonthInputs : GetCountDaysInMonth(in[1], in[2])
  \/ \E t \in WeekDates : calls = 0 /\ GetWeekNumberByDate(t)

SpecCalendar == InitCalendar /\ [][NextCalendar]_vars

\* the weeks before and of the changes of daylight saving time of 2024,
\* at the first hour, at noon and in the last hour of the UTC day
ObjectDates ==
  {MakeDate(d + k, time) :
     d \in {DaysFromCivil(2024, 3, 25), DaysFromCivil(2024, 10, 21)},
     k \in 0..6, time \in {0, 12 * msPerHour, 23 * msPerHour + 30 * 60}}

InitDateObject == tz \in TimeZones /\ \E t \in ObjectDates : Fresh(t)

NextDateObject ==
  \/ GetNextFriday
  \/ GetWeekNumberByDate(date)
  \/ GetQuarter
  \/ IsLeapYear
  \/ F13_Begin
  \/ F13_Run

SpecDateObject == InitDateObject /\ [][NextDateObject]_vars

---------------------------------------------------------------------------
(* Claims about the calendar functions.                                    *)

Returned(fn) == pc = "idle" /\ call.fn = fn

\* the 12-hour clock of a time of day
Expected12h(h, mi, sec) ==
  NumberToString(IF h % 12 = 0 THEN 12 ELSE h % 12) \o <<":">> \o ZeroPad(mi)
    \o <<":">> \o ZeroPad(sec) \o <<" ">>
    \o (IF h < 12 THEN <<"A", "M">> ELSE <<"P", "M">>)

\* C4: formatDate prints M/D/YYYY, then the hour 12 for h = 0 and h = 12 and
\* h mod 12 otherwise, minutes and seconds padded to two digits, and AM for
\* h in 0..11, PM for h in 12..23.
C4_TwelveHourClock ==
  Returned("formatDate") =>
    LET s == call.args[1]
    IN  ret = NumberToString(StringToNumber(SubSeq(s, 6, 7))) \o <<"/">>
                \o NumberToString(StringToNumber(SubSeq(s, 9, 10))) \o <<"/">>
                \o SubSeq(s, 1, 4) \o <<",", " ">>
                \o Expected12h(StringToNumber(SubSeq(s, 12, 13)),
                               StringToNumber(SubSeq(s, 15, 16)),
                               StringToNumber(SubSeq(s, 18, 19)))

\* the length of a month of the Gregorian calendar
GregorianDays(month, year) ==
  IF month \in {4, 6, 9, 11} THEN 30
  ELSE IF month # 2 THEN 31
  ELSE IF year % 4 = 0 /\ (year % 100 # 0 \/ year % 400 = 0) THEN 29
  ELSE 28

\* C7: getCountDaysInMonth returns the Gregorian length of the month, for
\* every month 1..12 of every year, December included.
C7_GregorianLength ==
  Returned("getCountDaysInMonth") => ret = GregorianDays(call.args[1], call.args[2])

\* the number of Mondays after January 1, up to the UTC day of t
MondaysSinceNewYear(t) ==
  Cardinality({d \in (DaysFromCivil(YearFromTime(t), 1, 1) + 1) .. Day(t) :
                 (d + 4) % 7 = 1})

---------------------------------------------------------------------------
(* Claims about the functions of a Date object.                            *)

\* the days from a weekday (0 = Sunday) to the next Friday after it
DaysToNextFriday(weekDay) == <<5, 4, 3, 2, 1, 7, 6>>[weekDay + 1]

\* C5: getNextFriday returns a Friday that lies 1 to 7 whole days after the
\* input: Sunday..Thursday go to the Friday of the same week, a Friday
\* advances by 7 days, a Saturday by 6.
C5_NextFriday ==
  Returned("getNextFriday") =>
    /\ getUTCDay(ret) = 5
    /\ ret - call.date = DaysToNextFriday(getUTCDay(call.date)) * msPerDay

\* C8: a function that receives a Date object leaves it unchanged, so two
\* calls in a row on the same object return equal results.
C8_ArgumentUnchanged ==
  (pc = "idle" /\ calls > 0) =>
    /\ date = call.date
    /\ (prev # <<>> /\ prev[1].fn = call.fn) => ret = prev[1].ret

===========================================================================
